---- MODULE Spec2Model ----
(***************************************************************************)
(* A model of nebraska's channel catalogue (pkg/api/channels.go): the      *)
(* channel table, the package table it is validated against, the activity *)
(* log, and the API calls AddChannel, UpdateChannel, DeleteChannel and     *)
(* GetChannel.  UpdateChannel reads the channel, validates the package and *)
(* later updates the row: other calls, and another UpdateChannel, may run  *)
(* between its read and its write.  Ids are generated by the database and  *)
(* never reused.                                                           *)
(*                                                                         *)
(* Three specifications:                                                   *)
(*   Spec          the channel API under concurrent callers;               *)
(*   SpecValidate  validatePackage applied to every input of a bounded set;*)
(*   SpecLedger    the check-in path of the specification's Statistics     *)
(*                 Ledger (TryReserveGrant), which has no source file here *)
(*                 and is modelled from the specification.                 *)
(***************************************************************************)
EXTENDS Integers, Sequences, FiniteSets, TLC

\* ------------------------------------------------------------------ bounds

\* The number of API calls explored in one behaviour.
MaxCalls == 3

\* Instances of the group that check in (besides instance 0, which is already
\* on the channel's package), and the last rollout period explored.
NumInstances == 3
MaxPeriod == 1

\* ------------------------------------------------------------ value domains

Nil == "nil"
ErrNotFound == "sql: no rows in result set"
ErrNoRowsAffected == "nebraska: no rows affected"
ErrInvalidArch == "nebraska: invalid/unsupported arch"
ErrArchMismatch == "nebraska: mismatched arches"
ErrInvalidPackage == "nebraska: invalid package"
ErrBlacklistedChannel == "nebraska: blacklisted channel"

\* The error of a database statement that could not be executed.
ErrExec == "exec: statement failed"

\* Arch is an unsigned enumeration: all, amd64, aarch64, x86.
ValidArchs == 0 .. 3

IsValid(arch) == arch \in ValidArchs

\* The nil *Package.
NoPackage == [id |-> 0, app |-> "", arch |-> 0, version |-> "", blacklist |-> << >>]

\* The package table.  No operation of channels.go writes it.  Packages 2, 3
\* and 4 blacklist channel 1, the channel that exists from the start (a
\* blacklist names channels by the id the database generated for them, so it
\* names none that is yet to be inserted); package 3 is built for another
\* architecture and package 4 belongs to another application.
Packages ==
    { [id |-> 1, app |-> "app1", arch |-> 1, version |-> "1.0.0", blacklist |-> << >>],
      [id |-> 2, app |-> "app1", arch |-> 1, version |-> "2.0.0", blacklist |-> <<1>>],
      [id |-> 3, app |-> "app1", arch |-> 2, version |-> "3.0.0", blacklist |-> <<1>>],
      [id |-> 4, app |-> "app2", arch |-> 1, version |-> "4.0.0", blacklist |-> <<1>>] }

\* The zero Channel value.
NoChannel ==
    [id |-> 0, name |-> "", color |-> "", created_ts |-> 0, app |-> "",
     pkg_id |-> 0, package |-> NoPackage, arch |-> 0]

\* Inputs of the calls.  Id 0 is the empty string; package id 0 is the empty
\* NullString; package id 5 names no package row.  Channel ids run up to the
\* number of calls: one channel exists from the start and each AddChannel
\* makes the database generate the next id.
ChannelIDs == 1 .. MaxCalls
CallerIDs == 0 .. MaxCalls
PackageIDs == 0 .. 5
Apps == {"app1", "app2"}
Archs == {1, 4}
\* Two callers may be between two statements of an UpdateChannel or an
\* AddChannel call at the same time.
Workers == {"w1", "w2"}

\* Channel values a caller passes to AddChannel: all of application app1
\* (package 4 is the one of another application), with the empty id or the
\* id of channel 1, a valid or an invalid architecture, any package id.
AddInputs ==
    { [NoChannel EXCEPT !.id = i, !.name = "beta", !.color = "blue",
                        !.app = a, !.arch = r, !.pkg_id = k] :
        i \in {0, 1}, a \in {"app1"}, r \in Archs, k \in PackageIDs }

\* Channel values a caller passes to UpdateChannel.  The application and the
\* architecture they carry are those of no stored channel.
UpdateInputs ==
    { [NoChannel EXCEPT !.id = i, !.name = "beta", !.color = "blue",
                        !.app = "app2", !.arch = 2, !.pkg_id = k] :
        i \in ChannelIDs, k \in PackageIDs }

VARIABLES
    channels,   \* the channel table: a set of rows, one per id
    lastID,     \* the last channel id the database generated
    activity,   \* the activity log, oldest entry first
    workers,    \* per worker: where it is inside UpdateChannel, and its locals
    calls,      \* the number of API calls started so far
    resp,       \* the last call that returned: its operation, argument and result
    call,       \* SpecValidate: one validatePackage call, its inputs and its result
    period,     \* SpecLedger: the current rollout period of the group
    ledger,     \* SpecLedger: per period, the updates granted in it
    instances,  \* SpecLedger: per instance, its check-in in progress and its status
    grants      \* SpecLedger: the Granted answers given, as <<instance, period>>

catalogVars == <<channels, lastID, activity, workers, resp, calls>>
ledgerVars == <<period, ledger, instances, grants>>
vars == <<channels, lastID, activity, workers, resp, calls, call, period, ledger, instances, grants>>

\* ---------------------------------------------------------------- queries

GetPackage(packageID) ==
    LET rows == { p \in Packages : p.id = packageID }
    IN  IF rows = {}
        THEN [pkg |-> NoPackage, err |-> ErrNotFound]
        ELSE [pkg |-> CHOOSE p \in rows : TRUE, err |-> Nil]

InBlacklist(channelID, blacklist) ==
    \E i \in 1 .. Len(blacklist) : channelID = blacklist[i]

validatePackageNoBlacklist(packageID, channelID, appID, channelArch) ==
    LET r == GetPackage(packageID)
    IN  IF r.err = Nil
        THEN IF r.pkg.app # appID
             THEN [pkg |-> NoPackage, err |-> ErrInvalidPackage]
             ELSE IF r.pkg.arch # channelArch
             THEN [pkg |-> NoPackage, err |-> ErrArchMismatch]
             ELSE r
        ELSE r

validatePackageNoArch(packageID, channelID, appID, channelArch) ==
    LET r == GetPackage(packageID)
    IN  IF r.err = Nil
        THEN IF r.pkg.app # appID
             THEN [pkg |-> NoPackage, err |-> ErrInvalidPackage]
             ELSE IF InBlacklist(channelID, r.pkg.blacklist)
             THEN [pkg |-> NoPackage, err |-> ErrBlacklistedChannel]
             ELSE r
        ELSE r

validatePackageArchFirst(packageID, channelID, appID, channelArch) ==
    LET r == GetPackage(packageID)
    IN  IF r.err = Nil
        THEN IF r.pkg.arch # channelArch
             THEN [pkg |-> NoPackage, err |-> ErrArchMismatch]
             ELSE IF r.pkg.app # appID
             THEN [pkg |-> NoPackage, err |-> ErrInvalidPackage]
             ELSE IF InBlacklist(channelID, r.pkg.blacklist)
             THEN [pkg |-> NoPackage, err |-> ErrBlacklistedChannel]
             ELSE r
        ELSE r

\* GetPackage, then the application, the architecture and the blacklist, in
\* that order; the package comes back only when all three pass.
validatePackage(packageID, channelID, appID, channelArch) ==
    LET r == GetPackage(packageID)
    IN  IF r.err = Nil
        THEN IF r.pkg.app # appID
             THEN [pkg |-> NoPackage, err |-> ErrInvalidPackage]
             ELSE IF r.pkg.arch # channelArch
             THEN [pkg |-> NoPackage, err |-> ErrArchMismatch]
             ELSE IF InBlacklist(channelID, r.pkg.blacklist)
             THEN [pkg |-> NoPackage, err |-> ErrBlacklistedChannel]
             ELSE r
        ELSE r

channelsQueryNoJoin ==
    { [id |-> c.id, name |-> c.name, color |-> c.color,
       created_ts |-> c.created_ts, app |-> c.app, pkg_id |-> c.pkg_id,
       package |-> GetPackage(1).pkg, arch |-> c.arch] : c \in channels }

\* SelectDoc("*").One("package", ... package.id = channel.package_id): every
\* row with the package row it points to embedded, read in one statement.
channelsQuery ==
    { [id |-> c.id, name |-> c.name, color |-> c.color,
       created_ts |-> c.created_ts, app |-> c.app, pkg_id |-> c.pkg_id,
       package |-> GetPackage(c.pkg_id).pkg, arch |-> c.arch] : c \in channels }

GetChannel(channelID) ==
    LET rows == { c \in channelsQuery : c.id = channelID }
    IN  IF rows = {}
        THEN [channel |-> NoChannel, err |-> ErrNotFound]
        ELSE [channel |-> CHOOSE c \in rows : TRUE, err |-> Nil]

\* ------------------------------------------------------------------- state

Idle == [pc |-> "idle", arg |-> NoChannel, before |-> NoChannel, pkg |-> NoPackage]

NoResp == [op |-> "none", arg |-> NoChannel, err |-> Nil, ret |-> NoChannel]

Resp(op, arg, err, ret) == [op |-> op, arg |-> arg, err |-> err, ret |-> ret]

Row(id, name, color, ts, app, pkg_id, arch) ==
    [id |-> id, name |-> name, color |-> color, created_ts |-> ts,
     app |-> app, pkg_id |-> pkg_id, arch |-> arch]

\* One channel of application app1, architecture 1, pointing to no package.
InitCatalog ==
    /\ channels = { Row(1, "stable", "green", 1, "app1", 0, 1) }
    /\ lastID = 1
    /\ activity = << >>
    /\ workers = [w \in Workers |-> Idle]
    /\ resp = NoResp
    /\ calls = 0

NoCall ==
    [packageID |-> 0, channelID |-> 0, appID |-> "", channelArch |-> 0,
     done |-> FALSE, out |-> [pkg |-> NoPackage, err |-> Nil]]

\* -------------------------------------------------------------- AddChannel

\* The row InsertInto("channel").Whitelist(name, color, application_id,
\* package_id, arch) creates: the id and created_ts columns are not in the
\* whitelist, the database fills them in (a fresh id, the insertion time).
InsertedRow(channel) ==
    Row(lastID + 1, channel.name, channel.color, lastID + 1,
        channel.app, channel.pkg_id, channel.arch)

\* Returning("*").QueryStruct(channel): the caller's value overwritten with
\* the columns of the new row.
Returned(channel, row) ==
    [channel EXCEPT !.id = row.id, !.name = row.name, !.color = row.color,
                    !.created_ts = row.created_ts, !.app = row.app,
                    !.pkg_id = row.pkg_id, !.arch = row.arch]

AddChannelCheckPackageFirst(channel) ==
    IF channel.pkg_id # 0
       /\ validatePackage(channel.pkg_id, channel.id, channel.app, channel.arch).err # Nil
    THEN validatePackage(channel.pkg_id, channel.id, channel.app, channel.arch).err
    ELSE IF ~IsValid(channel.arch)
    THEN ErrInvalidArch
    ELSE Nil

\* The error AddChannel returns before it inserts, or Nil.
AddChannelCheck(channel) ==
    IF ~IsValid(channel.arch)
    THEN ErrInvalidArch
    ELSE IF channel.pkg_id # 0
    THEN validatePackage(channel.pkg_id, channel.id, channel.app, channel.arch).err
    ELSE Nil

\* An AddChannel call that waits on the database at most once: the
\* architecture is invalid (no statement), the package query runs and the
\* package is missing or fails a check (return nil, err), or the channel has
\* no package id and the INSERT runs.  A call whose package passes the checks
\* waits twice, see AddChannelValidate and AddChannelInsert.
AddChannel(channel) ==
    /\ calls < MaxCalls
    /\ ~(channel.pkg_id # 0 /\ AddChannelCheck(channel) = Nil)
    /\ calls' = calls + 1
    /\ LET err == AddChannelCheck(channel)
       IN  IF err # Nil
           THEN /\ resp' = Resp("AddChannel", channel, err, NoChannel)
                /\ UNCHANGED <<channels, lastID>>
           ELSE /\ channels' = channels \cup { InsertedRow(channel) }
                /\ lastID' = lastID + 1
                /\ resp' = Resp("AddChannel", channel, Nil,
                                Returned(channel, InsertedRow(channel)))
    /\ UNCHANGED <<activity, workers, call, ledgerVars>>

\* The first statement of an AddChannel call with a package id: the
\* architecture is valid, api.validatePackage loads the package and the checks
\* pass.  The INSERT is a second statement outside any transaction, and
\* other callers' statements run in between.
AddChannelValidate(w, channel) ==
    /\ workers[w].pc = "idle"
    /\ calls < MaxCalls
    /\ channel.pkg_id # 0
    /\ AddChannelCheck(channel) = Nil
    /\ calls' = calls + 1
    /\ workers' = [workers EXCEPT ![w] =
                      [pc |-> "insert", arg |-> channel,
                       before |-> NoChannel, pkg |-> NoPackage]]
    /\ UNCHANGED <<channels, lastID, activity, resp, call, ledgerVars>>

\* The INSERT of a call whose package passed the checks has run.
AddChannelInsert(w) ==
    /\ workers[w].pc = "insert"
    /\ LET channel == workers[w].arg
       IN  /\ channels' = channels \cup { InsertedRow(channel) }
           /\ lastID' = lastID + 1
           /\ resp' = Resp("AddChannel", channel, Nil,
                           Returned(channel, InsertedRow(channel)))
    /\ workers' = [workers EXCEPT ![w] = Idle]
    /\ UNCHANGED <<activity, calls, call, ledgerVars>>

\* The INSERT of a call whose package passed the checks fails: return
\* channel, err with the caller's value as it was.  No row is inserted.
AddChannelInsertFails(w) ==
    /\ workers[w].pc = "insert"
    /\ resp' = Resp("AddChannel", workers[w].arg, ErrExec, workers[w].arg)
    /\ workers' = [workers EXCEPT ![w] = Idle]
    /\ UNCHANGED <<channels, lastID, activity, calls, call, ledgerVars>>

\* The query of GetPackage fails: validatePackage returns its error, and
\* AddChannel returns nil with it.
AddChannelLoadFails(channel) ==
    /\ calls < MaxCalls
    /\ IsValid(channel.arch)
    /\ channel.pkg_id # 0
    /\ calls' = calls + 1
    /\ resp' = Resp("AddChannel", channel, ErrExec, NoChannel)
    /\ UNCHANGED <<channels, lastID, activity, workers, call, ledgerVars>>

\* The INSERT of a call without a package id, its only statement, fails:
\* QueryStruct returns an error and leaves the caller's value as it was;
\* AddChannel returns that value with the error (return channel, err).  No
\* row is inserted.
AddChannelFails(channel) ==
    /\ calls < MaxCalls
    /\ channel.pkg_id = 0
    /\ AddChannelCheck(channel) = Nil
    /\ calls' = calls + 1
    /\ resp' = Resp("AddChannel", channel, ErrExec, channel)
    /\ UNCHANGED <<channels, lastID, activity, workers, call, ledgerVars>>

\* ----------------------------------------------------------- UpdateChannel

UpdValidateUnchecked(channel, before) ==
    IF channel.pkg_id # 0
    THEN GetPackage(channel.pkg_id)
    ELSE [pkg |-> NoPackage, err |-> Nil]

\* The package UpdateChannel validates, or none when the caller's channel
\* carries no package id.
UpdValidate(channel, before) ==
    IF channel.pkg_id # 0
    THEN validatePackage(channel.pkg_id, channel.id, before.app, before.arch)
    ELSE [pkg |-> NoPackage, err |-> Nil]

\* channelBeforeUpdate, err := api.GetChannel(channel.ID): one query.  A
\* caller's channel with a package id goes on to validatePackage, whose
\* GetPackage is a second query outside any transaction; one without a
\* package id goes on to the update statement.
UpdRead(w, channel) ==
    /\ workers[w].pc = "idle"
    /\ calls < MaxCalls
    /\ calls' = calls + 1
    /\ LET r == GetChannel(channel.id)
       IN  IF r.err # Nil
           THEN /\ resp' = Resp("UpdateChannel", channel, r.err, NoChannel)
                /\ UNCHANGED workers
           ELSE /\ workers' = [workers EXCEPT ![w] =
                        [pc |-> IF channel.pkg_id # 0 THEN "validate" ELSE "write",
                         arg |-> channel, before |-> r.channel, pkg |-> NoPackage]]
                /\ UNCHANGED resp
    /\ UNCHANGED <<channels, lastID, activity, call, ledgerVars>>

\* pkg, err = api.validatePackage(channel.PackageID.String, channel.ID,
\*   channelBeforeUpdate.ApplicationID, channelBeforeUpdate.Arch): the package
\* is loaded and checked against the values read before; an error is returned,
\* else the call goes on to the update statement.
UpdValidatePackage(w) ==
    /\ workers[w].pc = "validate"
    /\ LET me == workers[w]
           v == UpdValidate(me.arg, me.before)
       IN  IF v.err # Nil
           THEN /\ resp' = Resp("UpdateChannel", me.arg, v.err, NoChannel)
                /\ workers' = [workers EXCEPT ![w] = Idle]
           ELSE /\ workers' = [workers EXCEPT ![w].pc = "write", ![w].pkg = v.pkg]
                /\ UNCHANGED resp
    /\ UNCHANGED <<channels, lastID, activity, calls, call, ledgerVars>>

\* The query of GetPackage fails: validatePackage returns its error, which
\* UpdateChannel returns.
UpdValidatePackageFails(w) ==
    /\ workers[w].pc = "validate"
    /\ resp' = Resp("UpdateChannel", workers[w].arg, ErrExec, NoChannel)
    /\ workers' = [workers EXCEPT ![w] = Idle]
    /\ UNCHANGED <<channels, lastID, activity, calls, call, ledgerVars>>

\* The query of api.GetChannel(channel.ID) fails: UpdateChannel returns its
\* error.
UpdReadFails(w, channel) ==
    /\ workers[w].pc = "idle"
    /\ calls < MaxCalls
    /\ calls' = calls + 1
    /\ resp' = Resp("UpdateChannel", channel, ErrExec, NoChannel)
    /\ UNCHANGED <<channels, lastID, activity, workers, call, ledgerVars>>

UpdatedRowsAllColumns(channel) ==
    { IF c.id = channel.id
      THEN [c EXCEPT !.name = channel.name, !.color = channel.color,
                     !.pkg_id = channel.pkg_id, !.app = channel.app,
                     !.arch = channel.arch]
      ELSE c : c \in channels }

\* Update("channel").SetWhitelist(channel, "name", "color", "package_id")
\*   .Where("id = $1", channel.ID)
UpdatedRows(channel) ==
    { IF c.id = channel.id
      THEN [c EXCEPT !.name = channel.name, !.color = channel.color,
                     !.pkg_id = channel.pkg_id]
      ELSE c : c \in channels }

RowsAffected(channelID) == Cardinality({ c \in channels : c.id = channelID })

\* newChannelActivityEntry(activityChannelPackageUpdated, activityInfo,
\*   pkg.Version, pkg.ApplicationID, channel.ID)
ActivityEntry(pkg, channelID) ==
    [class |-> "activityChannelPackageUpdated", severity |-> "activityInfo",
     version |-> pkg.version, app |-> pkg.app, channel |-> channelID]

\* Whether UpdateChannel writes an activity entry after its update.
EmitsActivity(before, channel, pkg) ==
    before.pkg_id # channel.pkg_id /\ pkg # NoPackage

UpdWriteLogsFirst(w) ==
    /\ workers[w].pc = "write"
    /\ LET me == workers[w]
       IN  IF EmitsActivity(me.before, me.arg, me.pkg)
           THEN /\ channels' = UpdatedRows(me.arg)
                /\ workers' = [workers EXCEPT ![w].pc = "log"]
                /\ UNCHANGED resp
           ELSE /\ channels' = UpdatedRows(me.arg)
                /\ resp' = Resp("UpdateChannel", me.arg,
                                IF RowsAffected(me.arg.id) = 0
                                THEN ErrNoRowsAffected ELSE Nil, NoChannel)
                /\ workers' = [workers EXCEPT ![w] = Idle]
    /\ UNCHANGED <<lastID, activity, calls, call, ledgerVars>>

\* The update statement has run: result, err := ...Exec() with err == nil.
\* No row affected returns ErrNoRowsAffected.  Otherwise the call goes on to
\* write its activity entry, a second statement outside any transaction, when
\* the package id it read differs from the one it wrote and it has a package;
\* else it returns nil.
UpdWrite(w) ==
    /\ workers[w].pc = "write"
    /\ LET me == workers[w]
       IN  IF RowsAffected(me.arg.id) = 0
           THEN /\ resp' = Resp("UpdateChannel", me.arg, ErrNoRowsAffected, NoChannel)
                /\ workers' = [workers EXCEPT ![w] = Idle]
                /\ UNCHANGED channels
           ELSE IF EmitsActivity(me.before, me.arg, me.pkg)
           THEN /\ channels' = UpdatedRows(me.arg)
                /\ workers' = [workers EXCEPT ![w].pc = "log"]
                /\ UNCHANGED resp
           ELSE /\ channels' = UpdatedRows(me.arg)
                /\ resp' = Resp("UpdateChannel", me.arg, Nil, NoChannel)
                /\ workers' = [workers EXCEPT ![w] = Idle]
    /\ UNCHANGED <<lastID, activity, calls, call, ledgerVars>>

\* The update statement fails: Exec returns an error, which UpdateChannel
\* returns; the statement has changed nothing.
UpdWriteFails(w) ==
    /\ workers[w].pc = "write"
    /\ resp' = Resp("UpdateChannel", workers[w].arg, ErrExec, NoChannel)
    /\ workers' = [workers EXCEPT ![w] = Idle]
    /\ UNCHANGED <<channels, lastID, activity, calls, call, ledgerVars>>

\* _ = api.newChannelActivityEntry(...); return nil.  The entry is inserted,
\* or the insert fails and its error is discarded: UpdateChannel returns nil
\* either way.
UpdActivityEntry(w) ==
    /\ workers[w].pc = "log"
    /\ LET me == workers[w]
       IN  /\ \/ activity' = Append(activity, ActivityEntry(me.pkg, me.arg.id))
              \/ activity' = activity
           /\ resp' = Resp("UpdateChannel", me.arg, Nil, NoChannel)
    /\ workers' = [workers EXCEPT ![w] = Idle]
    /\ UNCHANGED <<channels, lastID, calls, call, ledgerVars>>

\* ----------------------------------------------------------- DeleteChannel

\* The DELETE has run (err == nil): no row affected returns ErrNoRowsAffected.
DeleteChannel(channelID) ==
    /\ calls < MaxCalls
    /\ calls' = calls + 1
    /\ channels' = { c \in channels : c.id # channelID }
    /\ resp' = Resp("DeleteChannel", [NoChannel EXCEPT !.id = channelID],
                    IF RowsAffected(channelID) = 0 THEN ErrNoRowsAffected ELSE Nil,
                    NoChannel)
    /\ UNCHANGED <<lastID, activity, workers, call, ledgerVars>>

\* The DELETE fails: err != nil, so the RowsAffected test is skipped and
\* DeleteChannel returns the statement's error.  No row is removed.
DeleteChannelFails(channelID) ==
    /\ calls < MaxCalls
    /\ calls' = calls + 1
    /\ resp' = Resp("DeleteChannel", [NoChannel EXCEPT !.id = channelID],
                    ErrExec, NoChannel)
    /\ UNCHANGED <<channels, lastID, activity, workers, call, ledgerVars>>

\* -------------------------------------------------------------- GetChannel

GetChannelCall(channelID) ==
    /\ calls < MaxCalls
    /\ calls' = calls + 1
    /\ resp' = Resp("GetChannel", [NoChannel EXCEPT !.id = channelID],
                    GetChannel(channelID).err, GetChannel(channelID).channel)
    /\ UNCHANGED <<channels, lastID, activity, workers, call, ledgerVars>>

\* The query fails: GetChannel returns nil and the query's error.
GetChannelFails(channelID) ==
    /\ calls < MaxCalls
    /\ calls' = calls + 1
    /\ resp' = Resp("GetChannel", [NoChannel EXCEPT !.id = channelID],
                    ErrExec, NoChannel)
    /\ UNCHANGED <<channels, lastID, activity, workers, call, ledgerVars>>

\* ------------------------------------------------- validatePackage, applied

\* SpecValidate: one call of validatePackage on an input of the bounded set.
ValidateInputs ==
    { [NoCall EXCEPT !.packageID = k, !.channelID = i, !.appID = a,
                     !.channelArch = r] :
        k \in PackageIDs, i \in CallerIDs, a \in Apps, r \in {1, 2, 4} }

ApplyValidate ==
    /\ ~call.done
    /\ call' = [call EXCEPT !.done = TRUE,
                            !.out = validatePackage(call.packageID, call.channelID,
                                                    call.appID, call.channelArch)]
    /\ UNCHANGED <<catalogVars, ledgerVars>>

\* ------------------------------------------------------ Statistics Ledger

\* The group's rollout policy and the version of its channel's package.
Policy == [updates_enabled |-> TRUE, safe_mode |-> FALSE, max_updates_per_period |-> 2]
TargetVersion == "2.0.0"

Instances == 0 .. NumInstances
Periods == 0 .. MaxPeriod

InitLedger ==
    /\ period = 0
    /\ ledger = [p \in Periods |-> 0]
    /\ instances = [i \in Instances |->
            [pc |-> "idle", decision |-> "none", answer |-> "none",
             version |-> IF i = 0 THEN TargetVersion ELSE "1.0.0",
             status |-> "UpToDate"]]
    /\ grants = {}

\* The Rollout Policy Evaluator: a pure function of the policy, the ledger
\* entry of the current period and the instance.  The group has safe mode
\* off, so the circuit breaker of step 2 never denies.
Evaluate(policy, granted, instance) ==
    IF ~policy.updates_enabled
    THEN "Denied(RolloutDisabled)"
    ELSE IF TargetVersion = instance.version /\ instance.status # "Errored"
    THEN "NoUpdate"
    ELSE IF granted >= policy.max_updates_per_period
    THEN "Denied(Throttled)"
    ELSE "Granted"

TryReserveGrantUnguarded(p) ==
    [ok |-> TRUE, ledger |-> [ledger EXCEPT ![p] = @ + 1]]

\* TryReserveGrant: one atomic increment-if-below-limit on the counter of
\* period p.
TryReserveGrant(p) ==
    IF ledger[p] < Policy.max_updates_per_period
    THEN [ok |-> TRUE, ledger |-> [ledger EXCEPT ![p] = @ + 1]]
    ELSE [ok |-> FALSE, ledger |-> ledger]

\* HandleCheckIn, first half: load the instance and the group, call the
\* Evaluator.  Any result but Granted is the answer.  An instance holding a
\* grant is busy with it and does not check in again.
CheckInEvaluate(i) ==
    /\ instances[i].pc = "idle"
    /\ instances[i].status # "UpdateGranted"
    /\ LET d == Evaluate(Policy, ledger[period], instances[i])
       IN  instances' = [instances EXCEPT
               ![i].decision = d,
               ![i].pc = IF d = "Granted" THEN "reserve" ELSE "idle",
               ![i].answer = IF d = "Granted" THEN "none" ELSE d]
    /\ UNCHANGED <<period, ledger, grants, catalogVars, call>>

\* HandleCheckIn, second half: on Granted, TryReserveGrant; when it fails the
\* answer is Denied(Throttled) and nothing else changes.
CheckInReserve(i) ==
    /\ instances[i].pc = "reserve"
    /\ LET r == TryReserveGrant(period)
       IN  IF r.ok
           THEN /\ ledger' = r.ledger
                /\ grants' = grants \cup { <<i, period>> }
                /\ instances' = [instances EXCEPT ![i].pc = "idle",
                                                  ![i].answer = "Granted",
                                                  ![i].status = "UpdateGranted"]
           ELSE /\ instances' = [instances EXCEPT ![i].pc = "idle",
                                                  ![i].answer = "Denied(Throttled)"]
                /\ UNCHANGED <<ledger, grants>>
    /\ UNCHANGED <<period, catalogVars, call>>

\* A period ends and the next begins, its counter at zero.
NextPeriod ==
    /\ period < MaxPeriod
    /\ period' = period + 1
    /\ UNCHANGED <<ledger, instances, grants, catalogVars, call>>

\* ---------------------------------------------------------- specifications

Init ==
    /\ InitCatalog
    /\ call = NoCall
    /\ InitLedger

Next ==
    \/ \E channel \in AddInputs : AddChannel(channel)
    \/ \E w \in Workers, channel \in AddInputs : AddChannelValidate(w, channel)
    \/ \E w \in Workers : AddChannelInsert(w)
    \/ \E w \in Workers : AddChannelInsertFails(w)
    \/ \E w \in Workers, channel \in UpdateInputs : UpdRead(w, channel)
    \/ \E w \in Workers : UpdValidatePackage(w)
    \/ \E w \in Workers : UpdValidatePackageFails(w)
    \/ \E channel \in AddInputs : AddChannelLoadFails(channel)
    \/ \E w \in Workers : UpdWrite(w)
    \/ \E w \in Workers : UpdWriteFails(w)
    \/ \E w \in Workers : UpdActivityEntry(w)
    \/ \E id \in ChannelIDs : DeleteChannel(id)
    \/ \E id \in ChannelIDs : GetChannelCall(id)
    \/ \E channel \in AddInputs : AddChannelFails(channel)
    \/ \E w \in Workers, channel \in UpdateInputs : UpdReadFails(w, channel)
    \/ \E id \in ChannelIDs : DeleteChannelFails(id)
    \/ \E id \in ChannelIDs : GetChannelFails(id)

Spec == Init /\ [][Next]_vars

InitValidate ==
    /\ InitCatalog
    /\ call \in ValidateInputs
    /\ InitLedger

SpecValidate == InitValidate /\ [][ApplyValidate]_vars

NextLedger ==
    \/ \E i \in Instances : CheckInEvaluate(i)
    \/ \E i \in Instances : CheckInReserve(i)
    \/ NextPeriod

SpecLedger == Init /\ [][NextLedger]_vars
\* ------------------------------------------------------------------ claims

\* Vocabulary of the properties, stated on the tables and not through the
\* operators above.
StoredRows(channelID) == { c \in channels : c.id = channelID }

PackageRows(packageID) == { p \in Packages : p.id = packageID }

Blacklists(p, channelID) == \E i \in DOMAIN p.blacklist : p.blacklist[i] = channelID

\* The error the three checks give for package p placed on a channel with
\* this id, application and architecture, first failing check first.
PlacementError(p, channelID, app, arch) ==
    IF p.app # app THEN ErrInvalidPackage
    ELSE IF p.arch # arch THEN ErrArchMismatch
    ELSE IF Blacklists(p, channelID) THEN ErrBlacklistedChannel
    ELSE Nil

\* The arguments an UpdateChannel step of worker w can have had: such a step
\* leaves its argument in the response (it returned) or in the worker's
\* locals (it goes on to its next statement).
UpdateArgs(w) == { resp'.arg, workers'[w].arg } \cap UpdateInputs

\* The argument an AddChannel step can have had: AddChannel returns in its one
\* step and leaves its argument in the response.
AddArgs == { resp'.arg } \cap AddInputs

\* C1, as stated: UpdateChannel of an existing channel with a package whose
\* blacklist contains the channel's id returns ErrBlacklistedChannel from its
\* validation, which leaves the channel table and the activity log as they
\* were.
C1_Original ==
    [][\A w \in Workers :
          (UpdValidatePackage(w)
             /\ \E p \in PackageRows(workers[w].arg.pkg_id) :
                   Blacklists(p, workers[w].arg.id))
          => /\ resp' = Resp("UpdateChannel", workers[w].arg,
                             ErrBlacklistedChannel, NoChannel)
             /\ UNCHANGED <<channels, activity>>]_vars

\* C1, amended: UpdateChannel of an existing channel with a package whose
\* blacklist contains the channel's id never reaches its update statement.
\* Its read finds the channel and goes on to the validation without writing;
\* its validation, which other calls may precede, returns the error of the
\* first failing check (ErrInvalidPackage, then ErrArchMismatch, then
\* ErrBlacklistedChannel) against the application and architecture that were
\* read, which are those of the stored row while it exists; a query that
\* fails returns its own error.  No step of the call writes the channel table
\* or the activity log.
C1_BlacklistedUpdateRejected ==
    [][/\ \A w \in Workers : \A ch \in UpdateArgs(w) :
              (UpdRead(w, ch) /\ StoredRows(ch.id) # {}
                 /\ \E p \in PackageRows(ch.pkg_id) : Blacklists(p, ch.id))
              => /\ workers'[w].pc = "validate"
                 /\ workers'[w].arg = ch
                 /\ \A c \in StoredRows(ch.id) :
                       /\ workers'[w].before.app = c.app
                       /\ workers'[w].before.arch = c.arch
                 /\ UNCHANGED <<channels, activity, resp>>
       /\ \A w \in Workers :
              (UpdValidatePackage(w)
                 /\ \E p \in PackageRows(workers[w].arg.pkg_id) :
                       Blacklists(p, workers[w].arg.id))
              => LET me == workers[w]
                 IN  /\ \E p \in PackageRows(me.arg.pkg_id) :
                           resp' = Resp("UpdateChannel", me.arg,
                                        PlacementError(p, me.arg.id, me.before.app,
                                                       me.before.arch), NoChannel)
                     /\ resp'.err # Nil
                     /\ \A c \in StoredRows(me.arg.id) :
                           c.app = me.before.app /\ c.arch = me.before.arch
                     /\ workers'[w] = Idle
                     /\ UNCHANGED <<channels, activity>>
       /\ \A w \in Workers :
              UpdValidatePackageFails(w)
              => /\ resp'.err = ErrExec
                 /\ workers'[w] = Idle
                 /\ UNCHANGED <<channels, activity>>
       /\ \A w \in Workers : \A ch \in UpdateArgs(w) :
              UpdReadFails(w, ch)
              => /\ resp'.err = ErrExec
                 /\ UNCHANGED <<channels, activity, workers>>]_vars

\* An UpdateChannel of a stored channel returned ErrBlacklistedChannel for a
\* package that blacklists it.
C1_Witness ==
    /\ resp.op = "UpdateChannel"
    /\ resp.err = ErrBlacklistedChannel
    /\ StoredRows(resp.arg.id) # {}
    /\ \E p \in PackageRows(resp.arg.pkg_id) : Blacklists(p, resp.arg.id)

\* C2: validatePackage returns the load error when the package cannot be
\* loaded; otherwise ErrInvalidPackage if the applications differ, else
\* ErrArchMismatch if the architectures differ, else ErrBlacklistedChannel if
\* the channel is blacklisted, else the package and no error.
C2_ValidatePackageOrder ==
    call.done =>
        IF PackageRows(call.packageID) = {}
        THEN call.out = [pkg |-> NoPackage, err |-> ErrNotFound]
        ELSE \A p \in PackageRows(call.packageID) :
                /\ p.app # call.appID => call.out.err = ErrInvalidPackage
                /\ (p.app = call.appID /\ p.arch # call.channelArch)
                       => call.out.err = ErrArchMismatch
                /\ (p.app = call.appID /\ p.arch = call.channelArch
                      /\ Blacklists(p, call.channelID))
                       => call.out.err = ErrBlacklistedChannel
                /\ (p.app = call.appID /\ p.arch = call.channelArch
                      /\ ~Blacklists(p, call.channelID))
                       => call.out = [pkg |-> p, err |-> Nil]
                /\ call.out.err # Nil => call.out.pkg = NoPackage

\* validatePackage has answered a call in which all three checks fail at once.
C2_Witness ==
    /\ call.done
    /\ call.out.err = ErrInvalidPackage
    /\ \E p \in PackageRows(call.packageID) :
          p.app # call.appID /\ p.arch # call.channelArch
             /\ Blacklists(p, call.channelID)

\* C3: every stored channel that points to a package points to a package of
\* the channel's application and architecture.
C3_PackageMatchesChannel ==
    \A c \in channels :
        c.pkg_id # 0 =>
            \E p \in Packages : p.id = c.pkg_id /\ p.app = c.app /\ p.arch = c.arch

\* Two stored channels point to packages, one set by UpdateChannel and one
\* inserted by AddChannel.
C3_Witness ==
    /\ \E c \in channels : c.id = 1 /\ c.pkg_id # 0
    /\ \E c \in channels : c.id # 1 /\ c.pkg_id # 0

\* C4: no stored channel points to a package whose blacklist contains the
\* channel's stored id.
C4_NeverBlacklisted ==
    \A c \in channels :
        c.pkg_id # 0 => \A p \in PackageRows(c.pkg_id) : ~Blacklists(p, c.id)

\* AddChannel has inserted a channel with a package that blacklists another
\* channel, after validating it against the id in the caller's value.
C4_Witness ==
    /\ resp.op = "AddChannel"
    /\ resp.err = Nil
    /\ resp.ret.id # resp.arg.id
    /\ \E c \in channels :
          /\ c.id = resp.ret.id
          /\ \E p \in PackageRows(c.pkg_id) : p.blacklist # << >>

\* C5, as stated: an UpdateChannel whose update succeeds writes one
\* channel-package-updated entry of info severity for its channel, with the
\* new package's version and application, exactly when its update changes the
\* stored package pointer; an UpdateChannel that fails at its read, its
\* validation or its update writes none.  Step by step: the read, the update
\* and a failed update leave the log as it is; an update goes on to the entry
\* exactly when it has changed the stored pointer; the entry step appends
\* that one entry.
C5_Claim ==
    [][/\ \A w \in Workers : \A ch \in UpdateArgs(w) :
              UpdRead(w, ch) \/ UpdReadFails(w, ch) => activity' = activity
       /\ \A w \in Workers :
              UpdValidatePackage(w) \/ UpdValidatePackageFails(w)
              => activity' = activity
       /\ \A w \in Workers :
              UpdWriteFails(w) => activity' = activity /\ workers'[w] = Idle
       /\ \A w \in Workers :
              UpdWrite(w) =>
                  /\ activity' = activity
                  /\ workers'[w].pc = "log"
                        <=> \E c \in StoredRows(workers[w].arg.id) :
                               c.pkg_id # workers[w].arg.pkg_id
       /\ \A w \in Workers :
              UpdActivityEntry(w) =>
                  /\ Len(activity') = Len(activity) + 1
                  /\ SubSeq(activity', 1, Len(activity)) = activity
                  /\ LET e == activity'[Len(activity')]
                     IN  /\ e.class = "activityChannelPackageUpdated"
                         /\ e.severity = "activityInfo"
                         /\ e.channel = workers[w].arg.id
                         /\ \A p \in PackageRows(workers[w].arg.pkg_id) :
                               e.version = p.version /\ e.app = p.app]_vars

\* C7: GetChannel of a stored channel returns its row with the package row
\* whose id is the row's package_id embedded, and no package exactly when the
\* pointer is unset; of an id with no stored channel, an error and no channel.
\* A GetChannel whose query fails returns an error and no channel.
C7_GetChannelSnapshot ==
    [][\A id \in ChannelIDs :
          /\ GetChannelFails(id) => resp'.err # Nil /\ resp'.ret = NoChannel
          /\ GetChannelCall(id) =>
              IF StoredRows(id) = {}
              THEN resp'.err # Nil /\ resp'.ret = NoChannel
              ELSE /\ resp'.err = Nil
                   /\ \E c \in StoredRows(id) :
                         /\ resp'.ret.id = c.id /\ resp'.ret.name = c.name
                         /\ resp'.ret.color = c.color /\ resp'.ret.app = c.app
                         /\ resp'.ret.created_ts = c.created_ts
                         /\ resp'.ret.arch = c.arch /\ resp'.ret.pkg_id = c.pkg_id
                         /\ (resp'.ret.package = NoPackage) <=> (c.pkg_id = 0)
                         /\ c.pkg_id # 0 =>
                               /\ resp'.ret.package \in Packages
                               /\ resp'.ret.package.id = c.pkg_id]_vars

\* GetChannel has returned a channel with package 2 embedded, and an
\* UpdateChannel has written the activity entry of its move to that package
\* (from another package or none) before: the read shows where the pointer
\* is now.
C7_Witness ==
    /\ resp.op = "GetChannel"
    /\ resp.err = Nil
    /\ resp.ret.package \in Packages
    /\ resp.ret.package.id = 2
    /\ \E i \in DOMAIN activity :
          activity[i].channel = resp.ret.id /\ activity[i].version = "2.0.0"

\* C8: AddChannel returns ErrInvalidArch for an invalid architecture whatever
\* package the channel carries; else, for a non-empty package id, the
\* validation error of that package if there is one; in both cases it inserts
\* nothing.  A channel with a valid architecture and no package id gets in.
\* An insert that fails comes after the checks have passed, returns its own
\* error and inserts nothing; a package query that fails comes after the
\* architecture check, returns its own error and inserts nothing.  A channel
\* with a package id goes on from its package query to its INSERT, a second
\* statement, exactly when the architecture is valid and the package passes
\* the checks; the query step inserts nothing and the INSERT adds the row.
C8_AddChannelRejects ==
    [][/\ \A ch \in AddArgs :
             /\ AddChannelLoadFails(ch) =>
                   /\ ch.arch \in ValidArchs
                   /\ resp'.err = ErrExec
                   /\ channels' = channels
             /\ AddChannelFails(ch) =>
                   /\ ch.arch \in ValidArchs
                   /\ ch.pkg_id # 0 =>
                         \E p \in PackageRows(ch.pkg_id) :
                             PlacementError(p, ch.id, ch.app, ch.arch) = Nil
                   /\ resp'.err = ErrExec
                   /\ channels' = channels
             /\ AddChannel(ch) =>
                 IF ~(ch.arch \in ValidArchs)
                 THEN resp'.err = ErrInvalidArch /\ channels' = channels
                 ELSE IF ch.pkg_id # 0 /\ PackageRows(ch.pkg_id) = {}
                 THEN resp'.err = ErrNotFound /\ channels' = channels
                 ELSE IF ch.pkg_id # 0
                         /\ \E p \in PackageRows(ch.pkg_id) :
                               PlacementError(p, ch.id, ch.app, ch.arch) # Nil
                 THEN /\ \E p \in PackageRows(ch.pkg_id) :
                            resp'.err = PlacementError(p, ch.id, ch.app, ch.arch)
                      /\ channels' = channels
                 ELSE /\ resp'.err = Nil
                      /\ Cardinality(channels') = Cardinality(channels) + 1
                      /\ \E c \in channels' \ channels :
                            /\ c.name = ch.name /\ c.color = ch.color
                            /\ c.app = ch.app /\ c.arch = ch.arch
                            /\ c.pkg_id = ch.pkg_id
       /\ \A w \in Workers : \A ch \in { workers'[w].arg } \cap AddInputs :
              AddChannelValidate(w, ch)
              => /\ ch.arch \in ValidArchs
                 /\ ch.pkg_id # 0
                 /\ \E p \in PackageRows(ch.pkg_id) :
                       PlacementError(p, ch.id, ch.app, ch.arch) = Nil
                 /\ UNCHANGED <<channels, resp>>
       /\ \A w \in Workers :
              AddChannelInsert(w)
              => LET ch == workers[w].arg
                 IN  /\ resp'.err = Nil
                     /\ Cardinality(channels') = Cardinality(channels) + 1
                     /\ \E c \in channels' \ channels :
                           /\ c.name = ch.name /\ c.color = ch.color
                           /\ c.app = ch.app /\ c.arch = ch.arch
                           /\ c.pkg_id = ch.pkg_id
       /\ \A w \in Workers :
              AddChannelInsertFails(w)
              => resp'.err = ErrExec /\ channels' = channels]_vars

\* AddChannel has returned ErrInvalidArch for a channel whose package would
\* have failed validation too.
C8_Witness ==
    /\ resp.op = "AddChannel"
    /\ resp.err = ErrInvalidArch
    /\ resp.arg.pkg_id # 0
    /\ \A p \in PackageRows(resp.arg.pkg_id) :
          PlacementError(p, resp.arg.id, resp.arg.app, resp.arg.arch) # Nil

\* The errors validatePackage gives when the package is missing or fails a
\* check.
ValidationErrors ==
    { ErrNotFound, ErrInvalidPackage, ErrArchMismatch, ErrBlacklistedChannel }

C10_UpdateFrame ==
    [][/\ \A w \in Workers :
              \/ UpdWriteFails(w) \/ UpdActivityEntry(w)
              \/ UpdValidatePackage(w) \/ UpdValidatePackageFails(w)
              => channels' = channels
       /\ \A w \in Workers :
              (UpdWrite(w) /\ StoredRows(workers[w].arg.id) # {})
              => LET a == workers[w].arg
                 IN  /\ \A c \in channels : c.id # a.id => c \in channels'
                     /\ Cardinality(channels') = Cardinality(channels)
                     /\ \A c \in StoredRows(a.id) :
                           [c EXCEPT !.name = a.name, !.color = a.color,
                                     !.pkg_id = a.pkg_id] \in channels'
       /\ \A w \in Workers : \A ch \in UpdateArgs(w) :
              (UpdRead(w, ch) /\ StoredRows(ch.id) # {})
              => /\ channels' = channels
                 /\ workers'[w].pc = IF ch.pkg_id = 0 THEN "write" ELSE "validate"
                 /\ \A c \in StoredRows(ch.id) :
                       /\ workers'[w].before.app = c.app
                       /\ workers'[w].before.arch = c.arch
       /\ \A w \in Workers :
              UpdValidatePackage(w)
              => LET me == workers[w]
                 IN  /\ workers'[w].pc = "write"
                           <=> \E p \in PackageRows(me.arg.pkg_id) :
                                  PlacementError(p, me.arg.id, me.before.app,
                                                 me.before.arch) = Nil
                     /\ \A c \in StoredRows(me.arg.id) :
                           c.app = me.before.app /\ c.arch = me.before.arch]_vars

\* A successful UpdateChannel has set a package on a channel whose application
\* and architecture are not the ones its caller passed.
C10_Witness ==
    /\ resp.op = "UpdateChannel"
    /\ resp.err = Nil
    /\ \E c \in StoredRows(resp.arg.id) :
          /\ c.pkg_id = resp.arg.pkg_id /\ c.pkg_id # 0
          /\ c.app # resp.arg.app /\ c.arch # resp.arg.arch
          /\ c.name = resp.arg.name

\* C6: in every period the Granted answers, and the ledger's count of them,
\* never exceed max_updates_per_period; and a check-in whose Evaluator result
\* was Granted but whose TryReserveGrant fails is answered Denied(Throttled)
\* with the ledger and the instance's status and version as they were.
C6_CapNeverExceeded ==
    /\ [](\A p \in Periods :
             /\ Cardinality({ g \in grants : g[2] = p }) <= Policy.max_updates_per_period
             /\ ledger[p] = Cardinality({ g \in grants : g[2] = p }))
    /\ [][\A i \in Instances :
             (CheckInReserve(i) /\ ledger[period] >= Policy.max_updates_per_period)
             => /\ instances'[i].answer = "Denied(Throttled)"
                /\ instances'[i].status = instances[i].status
                /\ instances'[i].version = instances[i].version
                /\ UNCHANGED <<ledger, grants>>]_vars

\* An instance lost the race: the Evaluator granted it, the period's counter
\* was full when it came to reserve, and it was answered Denied(Throttled).
C6_Witness ==
    \E i \in Instances :
        /\ instances[i].decision = "Granted"
        /\ instances[i].answer = "Denied(Throttled)"
        /\ ledger[period] = Policy.max_updates_per_period
====
